---- MODULE Spec2Model ----
(***************************************************************************)
(* Model of rocket_learn/rollout_generators/redis_rolloutgenerator.py:     *)
(* the Redis store shared by one RedisRolloutGenerator (the learner) and   *)
(* several RedisRolloutWorker processes.                                   *)
(*                                                                         *)
(* Every Redis command is atomic and is one step of the process that       *)
(* issues it, together with the local computation that follows it up to    *)
(* the next command: the steps of the workers, of update_parameters, of    *)
(* generate_rollouts (blpop, get, one lindex per record, one lset per      *)
(* written version) and of __init__ (exists and delete per key) interleave *)
(* freely.  generate_rollouts and update_parameters run on the one learner *)
(* thread: update_parameters is only called while the generator is         *)
(* suspended (before its first item, or at a yield).  An exception out of  *)
(* update_parameters goes to its caller, who may call it again; an         *)
(* exception out of generate_rollouts ends that generator.  A generator    *)
(* may be constructed again on the same store (the learner is restarted).  *)
(*                                                                         *)
(* Versions and list indices are 0-based as in the code; a Redis list is a *)
(* sequence, and index i of the list is element i+1 of the sequence.       *)
(*                                                                         *)
(* n_calls, published, rated_for, pushed, dequeued and g_before are        *)
(* history variables: they record what the store commands did and in which *)
(* order; n_calls names the blob a call publishes, and no action reads the *)
(* others.                                                                 *)
(*                                                                         *)
(* Specifications: Spec (generator and one worker from construction, the   *)
(* generator constructed again at any time), SpecPlay (one generator       *)
(* publishing and one worker playing, nothing consuming), SpecCadence      *)
(* (update_parameters alone, default save_every), SpecFifo (two workers    *)
(* and the generator after the first model), SpecRate (generate_rollouts   *)
(* on one queued submission) and SpecSeats (the seat probabilities of a    *)
(* worker iteration).                                                      *)
(***************************************************************************)
EXTENDS Integers, Sequences, FiniteSets, TLC

\* ------------------------------------------------------------------ bounds
\* number of update_parameters calls explored under Spec
MaxCalls == 2
\* number of episodes each worker plays under Spec, SpecPlay and SpecFifo
MaxEpisodes == 1
\* largest match.agents a worker is constructed with
MaxSeats == 2
\* largest save_every the generator is constructed with under Spec
MaxSaveEvery == 2
\* largest denominator of the current_version_prob values tried under SpecSeats
MaxProbDen == 10
\* number of update_parameters calls explored under SpecCadence
MaxCallsCadence == 22
\* constructions of a generator on one store explored under Spec
MaxInits == 2

\* ------------------------------------------------------- program constants
\* save_every=10, the default of RedisRolloutGenerator.__init__
SaveEveryDefault == 10
\* redis-py returns None for a missing key and for an index out of range
None == 0 - 1
\* names of worker processes; a deployment starts some of them
Workers == {"w1", "w2"}
\* signed match results returned by util.generate_episode
Results == {0 - 1, 0, 1}

\* ---------------------------------------------------------------- ratings
\* trueskill.Rating(mu): sigma takes the library default.  mu and sigma are
\* kept in fixed-point units chosen so that every mean taken below is exact.
SigmaDefault == 8
SigmaFloor == 6

\* line 136: current_version_prob=.9, as <<numerator, denominator>>
ProbDefault == <<9, 10>>

Rating(mu) == [mu |-> mu, sigma |-> SigmaDefault]

Rating2(mu, sigma) == [mu |-> mu, sigma |-> sigma]

RECURSIVE Fact(_)
Fact(n) == IF n <= 1 THEN 1 ELSE n * Fact(n - 1)

\* size of one rating move; a multiple of every group size up to MaxSeats
RateDelta == Fact(MaxSeats + 1)

RECURSIVE SumMu(_)
SumMu(rs) == IF rs = <<>> THEN 0 ELSE Head(rs).mu + SumMu(Tail(rs))

RECURSIVE SumSigma(_)
SumSigma(rs) == IF rs = <<>> THEN 0 ELSE Head(rs).sigma + SumSigma(Tail(rs))

Shrink(sigma) == IF sigma > SigmaFloor THEN sigma - 1 ELSE sigma

Moved(team, d) == [i \in DOMAIN team |-> Rating2(team[i].mu + d, Shrink(team[i].sigma))]

\* trueskill.rate for two teams, rate((first, second), ranks=(0, rank)), as far
\* as the generator depends on it: one new rating per seat, in seat order; with
\* rank > 0 the first team wins, its means rise and the other's fall; rank = 0
\* is a draw, which pulls the two teams together; every sigma shrinks.
RateGroups(first, second, rank) ==
    IF rank > 0 THEN <<Moved(first, RateDelta), Moved(second, 0 - RateDelta)>>
    ELSE IF SumMu(first) > SumMu(second)
         THEN <<Moved(first, 0 - RateDelta), Moved(second, RateDelta)>>
    ELSE IF SumMu(first) < SumMu(second)
         THEN <<Moved(first, RateDelta), Moved(second, 0 - RateDelta)>>
    ELSE <<Moved(first, 0), Moved(second, 0)>>

\* ------------------------------------------------------------ Redis lists
HasIndex(list, i) == i >= 0 /\ i < Len(list)

Lindex(list, i) == list[i + 1]

Lset(list, i, v) == [list EXCEPT ![i + 1] = v]

\* mutant of Rpush: the value is pushed at the head (LPUSH)
RpushAtHead(list, v) == <<v>> \o list

Rpush(list, v) == Append(list, v)

\* mutant of Blpop: the head is read but stays in the queue
BlpopKeeps(list) == list

\* the list that blpop leaves behind
Blpop(list) == Tail(list)

\* ------------------------------------------------------------------ state
VARIABLES
    \* the store
    model_latest,     \* MODEL_LATEST: None, or the blob published last
    version_latest,   \* VERSION_LATEST: None, or an integer
    qualities,        \* QUALITIES: list of ratings
    opponent_models,  \* OPPONENT_MODELS: list of blobs
    rollout,          \* ROLLOUTS: queue of submissions
    worker_ids,       \* WORKER_IDS: list of uuids
    \* RedisRolloutGenerator
    save_every, logger, n_updates,
    ipc,              \* position inside __init__: "done", or "exists" / "delete" in its loop
    i_key,            \* the key of _ALL (counted from 1) the loop of __init__ is at; 1 outside it
    n_inits,          \* constructions of a generator on this store so far
    n_calls,          \* update_parameters calls started; call k publishes blob k
    upc,              \* position inside update_parameters
    appended,         \* the call in progress (or the last one) ran _add_opponent's rpush
    u_ratings,        \* the local `ratings` of _add_opponent (line 108) while it runs
    u_result,         \* how the last call ended: "none", "returned", "raised"
    published,        \* history: published[k] is the value call k set VERSION_LATEST to,
                      \* for the calls k (counted as n_calls counts them) that set it
    rated_for,         \* history: rated_for[i] is the blob QUALITIES entry i-1 was pushed for
    gpc,              \* position of generate_rollouts
    g_sub,            \* the submission dequeued last
    g_latest,         \* latest_version read for it
    g_before,         \* history: QUALITIES when blpop returned it
    g_read,           \* the ratings read for its records so far (blue + orange)
    g_todo,           \* the keys of versions still to be written back
    g_written,        \* versions whose rating it wrote back with lset
    g_rollouts,       \* rollouts still to be yielded for it
    g_out,            \* rollouts already yielded for it
    g_err,            \* "ok", or the exception that ended the generator
    g_locals,         \* the locals blue, orange and versions (before line 96) for it
    dequeued,         \* the submissions blpop has returned, in order
    \* RedisRolloutWorker
    deployed,         \* the worker processes of this deployment
    n_agents,
    current_version_prob,  \* <<numerator, denominator>>
    seat_stats,       \* the seat statistics of one iteration of run, once worked out
    pushed,           \* history: the rpush(ROLLOUTS) commands, in the order the store ran them
    wpc, current_agent, w_model, w_latest, w_n, w_agents, w_index

vars == <<model_latest, version_latest, qualities, opponent_models, rollout, worker_ids,
          save_every, logger, ipc, i_key, n_inits, n_updates, n_calls, upc, appended, u_ratings, u_result,
          published, rated_for,
          gpc, g_sub, g_latest, g_before, g_read, g_todo, g_written, g_rollouts, g_out,
          g_err, g_locals, dequeued,
          deployed, n_agents, current_version_prob, seat_stats, pushed, wpc, current_agent, w_model, w_latest, w_n, w_agents, w_index>>

storeVars == <<model_latest, version_latest, qualities, opponent_models, rollout, worker_ids>>
ctorVars == <<save_every, logger, ipc, i_key, n_inits>>
updVars == <<ctorVars, n_updates, n_calls, upc, appended, u_ratings, u_result,
            published, rated_for>>
genVars == <<gpc, g_sub, g_latest, g_before, g_read, g_todo, g_written, g_rollouts, g_out,
            g_err, g_locals, dequeued>>
workerVars == <<deployed, n_agents, current_version_prob, seat_stats, pushed,
               wpc, current_agent, w_model, w_latest, w_n, w_agents, w_index>>

NoSub == [data |-> <<>>, uuid |-> "", name |-> "", result |-> 0]

\* no team and no versions dict built yet
NoLocals == [blue |-> <<>>, orange |-> <<>>, versions |-> <<>>]

\* the seat statistics not worked out yet
NoStats == [done |-> FALSE, adjusted |-> <<0, 1>>, expected |-> <<0, 1>>]

\* lines 52-58: RedisRolloutGenerator.__init__; generate_rollouts not entered
InitGenerator(saveEveries, loggers) ==
    /\ save_every \in saveEveries
    /\ logger \in loggers
    /\ ipc = "done"
    /\ i_key = 1
    /\ n_inits = 1
    /\ upc = "idle"
    /\ gpc = "start"
    /\ g_sub = NoSub
    /\ g_latest = None
    /\ g_before = <<>>
    /\ g_read = <<>>
    /\ g_todo = <<>>
    /\ g_written = {}
    /\ g_rollouts = <<>>
    /\ g_out = <<>>
    /\ g_err = "ok"
    /\ g_locals = NoLocals
    /\ dequeued = <<>>

\* lines 55, 61-64: the store after clear=True, and no update_parameters call yet
InitStore ==
    /\ model_latest = None
    /\ version_latest = None
    /\ qualities = <<>>
    /\ opponent_models = <<>>
    /\ rollout = <<>>
    /\ worker_ids = <<>>
    /\ n_updates = 0
    /\ n_calls = 0
    /\ appended = FALSE
    /\ u_ratings = <<>>
    /\ u_result = "none"
    /\ published = <<>>
    /\ rated_for = <<>>

\* the worker processes of the deployment, none constructed yet
InitWorkers(processes, seats, probs) ==
    /\ deployed = processes
    /\ n_agents \in seats
    /\ current_version_prob \in probs
    /\ seat_stats = NoStats
    /\ pushed = <<>>
    /\ wpc = [w \in Workers |-> "new"]
    /\ current_agent = [w \in Workers |-> None]
    /\ w_model = [w \in Workers |-> None]
    /\ w_latest = [w \in Workers |-> None]
    /\ w_n = [w \in Workers |-> 0]
    /\ w_agents = [w \in Workers |-> <<>>]
    /\ w_index = [w \in Workers |-> None]

\* RedisRolloutGenerator.__init__ on an empty store (clear=True), and no
\* worker constructed yet.
InitOf(saveEveries, processes, seats, probs) ==
    /\ InitGenerator(saveEveries, BOOLEAN)
    /\ InitStore
    /\ InitWorkers(processes, seats, probs)

\* workers constructed for matches of 1..MaxSeats agents with the default
\* current_version_prob
InitWith(saveEveries, processes) ==
    InitOf(saveEveries, processes, 1..MaxSeats, {ProbDefault})

\* one generator with save_every in 1..MaxSaveEvery and one worker process
Init == InitWith(1..MaxSaveEvery, {"w1"})

\* ------------------------------------------------------------- __init__
\* line 30: _ALL, the keys in the order the loop of line 62 visits them
AllKeys == <<"qualities", "model-latest", "rollout", "model-version", "opponent-models",
             "worker-ids">>

\* redis.exists(key) > 0; Redis keeps no empty list
KeyExists(key) ==
    CASE key = "qualities" -> qualities # <<>>
      [] key = "model-latest" -> model_latest # None
      [] key = "rollout" -> rollout # <<>>
      [] key = "model-version" -> version_latest # None
      [] key = "opponent-models" -> opponent_models # <<>>
      [] key = "worker-ids" -> worker_ids # <<>>

\* the loop of line 62 goes on to its next key, or __init__ returns
ClearNext ==
    IF i_key < Len(AllKeys)
    THEN ipc' = "exists" /\ i_key' = i_key + 1
    ELSE ipc' = "done" /\ i_key' = 1

\* lines 52-61: a learner process constructs RedisRolloutGenerator(redis,
\* save_every, logger, clear) on the store (the learner is started again): the
\* generator that was there is gone with its process, wherever it was; the new
\* one has n_updates = 0 and has not entered generate_rollouts
GeneratorInit(saveEvery, hasLogger, clear) ==
    /\ n_inits < MaxInits
    /\ n_inits' = n_inits + 1
    /\ save_every' = saveEvery
    /\ logger' = hasLogger
    /\ n_updates' = 0
    /\ ipc' = IF clear THEN "exists" ELSE "done"
    /\ i_key' = 1
    /\ upc' = "idle"
    /\ appended' = FALSE
    /\ u_ratings' = <<>>
    /\ u_result' = "none"
    /\ gpc' = "start"
    /\ g_sub' = NoSub
    /\ g_latest' = None
    /\ g_before' = <<>>
    /\ g_read' = <<>>
    /\ g_todo' = <<>>
    /\ g_written' = {}
    /\ g_rollouts' = <<>>
    /\ g_out' = <<>>
    /\ g_err' = "ok"
    /\ g_locals' = NoLocals
    /\ UNCHANGED <<n_calls, published, rated_for, dequeued>>
    /\ UNCHANGED <<storeVars, workerVars>>

\* line 63: redis.exists(key) for the key the loop is at
ClearExists ==
    /\ ipc = "exists"
    /\ IF KeyExists(AllKeys[i_key])
       THEN ipc' = "delete" /\ UNCHANGED i_key
       ELSE ClearNext
    /\ UNCHANGED <<save_every, logger, n_inits, n_updates, n_calls, upc, appended, u_ratings,
                   u_result, published, rated_for>>
    /\ UNCHANGED <<storeVars, genVars, workerVars>>

\* line 64: redis.delete(key) for the key the loop is at
ClearDelete ==
    /\ ipc = "delete"
    /\ LET key == AllKeys[i_key]
       IN  /\ qualities' = IF key = "qualities" THEN <<>> ELSE qualities
           /\ rated_for' = IF key = "qualities" THEN <<>> ELSE rated_for
           /\ model_latest' = IF key = "model-latest" THEN None ELSE model_latest
           /\ rollout' = IF key = "rollout" THEN <<>> ELSE rollout
           /\ version_latest' = IF key = "model-version" THEN None ELSE version_latest
           /\ opponent_models' = IF key = "opponent-models" THEN <<>> ELSE opponent_models
           /\ worker_ids' = IF key = "worker-ids" THEN <<>> ELSE worker_ids
    /\ ClearNext
    /\ UNCHANGED <<save_every, logger, n_inits, n_updates, n_calls, upc, appended, u_ratings,
                   u_result, published>>
    /\ UNCHANGED <<genVars, workerVars>>

\* ------------------------------------------------------ update_parameters
\* the learner thread is free to call update_parameters
LearnerFree == ipc = "done" /\ upc = "idle" /\ gpc \in {"start", "yield", "raised"}

\* lines 119-121: a new call; redis.set(MODEL_LATEST, model_bytes)
UpdSetModel(maxCalls) ==
    /\ LearnerFree
    /\ n_calls < maxCalls
    /\ n_calls' = n_calls + 1
    /\ model_latest' = n_calls + 1
    /\ appended' = FALSE
    /\ upc' = "set_version"
    /\ UNCHANGED <<version_latest, qualities, opponent_models, rollout, worker_ids>>
    /\ UNCHANGED <<ctorVars, n_updates, u_ratings, u_result, published, rated_for>>
    /\ UNCHANGED <<genVars, workerVars>>

\* mutant of SaveDue: the snapshot is taken on the save_every-th call
SaveDueAfter(n, every) == (n + 1) % every = 0

\* line 128
SaveDue(n, every) == n % every = 0

\* lines 122-132: redis.set(VERSION_LATEST, n_updates); without a snapshot
\* due the call returns after n_updates += 1
UpdSetVersion ==
    /\ upc = "set_version"
    /\ version_latest' = n_updates
    /\ IF SaveDue(n_updates, save_every)
       THEN /\ upc' = "add_opponent"
            /\ UNCHANGED <<n_updates, u_result>>
       ELSE /\ upc' = "idle"
            /\ n_updates' = n_updates + 1
            /\ u_result' = "returned"
    /\ published' = [k \in DOMAIN published \cup {n_calls} |->
                         IF k = n_calls THEN n_updates ELSE published[k]]
    /\ UNCHANGED <<model_latest, qualities, opponent_models, rollout, worker_ids>>
    /\ UNCHANGED <<ctorVars, n_calls, appended, u_ratings, rated_for>>
    /\ UNCHANGED <<genVars, workerVars>>

\* line 106: redis.rpush(OPPONENT_MODELS, agent), agent = this call's blob
AddOpponentPushModel ==
    /\ upc = "add_opponent"
    /\ opponent_models' = Rpush(opponent_models, n_calls)
    /\ appended' = TRUE
    /\ upc' = "read_qualities"
    /\ UNCHANGED <<model_latest, version_latest, qualities, rollout, worker_ids>>
    /\ UNCHANGED <<ctorVars, n_updates, n_calls, u_ratings, u_result, published, rated_for>>
    /\ UNCHANGED <<genVars, workerVars>>

\* lines 109-113: with ratings present the log call is evaluated.  On
\* logger=None, self.logger.log raises AttributeError.  With a logger, wandb is
\* handed np.array(<generator expression>), a 0-d object array, and the result
\* is passed to the caller's logger: whether that returns or raises is theirs
\* to decide, so both outcomes are kept.
LogOutcomes(ratings, hasLogger) ==
    IF ratings = <<>> THEN {"returns"}
    ELSE IF ~hasLogger THEN {"raises"}
    ELSE {"returns", "raises"}

\* lines 114-116
NewQuality(ratings) ==
    IF ratings # <<>> THEN Rating(ratings[Len(ratings)].mu) ELSE Rating(0)

\* mutant of PushQuality: a baseline rating is stored ahead of the first snapshot's
PushQualityWithBaseline(list, ratings) ==
    IF list = <<>> THEN <<Rating(0), Rating(0)>> ELSE Rpush(list, NewQuality(ratings))

\* line 117: QUALITIES after redis.rpush(QUALITIES, _serialize(quality))
PushQuality(list, ratings) == Rpush(list, NewQuality(ratings))

\* lines 108-116: ratings = redis.lrange(QUALITIES, 0, -1), then the log call,
\* which ends update_parameters when it raises
AddOpponentReadQualities ==
    /\ upc = "read_qualities"
    /\ \E log \in LogOutcomes(qualities, logger) :
           IF log = "raises"
           THEN /\ upc' = "idle"
                /\ u_ratings' = <<>>
                /\ u_result' = "raised"
           ELSE /\ upc' = "set_quality"
                /\ u_ratings' = qualities
                /\ UNCHANGED u_result
    /\ UNCHANGED storeVars
    /\ UNCHANGED <<ctorVars, n_updates, n_calls, appended, published, rated_for>>
    /\ UNCHANGED <<genVars, workerVars>>

\* lines 117 and 132: redis.rpush(QUALITIES, quality), n_updates += 1, return
AddOpponentSetQuality ==
    /\ upc = "set_quality"
    /\ upc' = "idle"
    /\ qualities' = PushQuality(qualities, u_ratings)
    /\ u_ratings' = <<>>
    /\ rated_for' = Append(rated_for, n_calls)
    /\ n_updates' = n_updates + 1
    /\ u_result' = "returned"
    /\ UNCHANGED <<model_latest, version_latest, opponent_models, rollout, worker_ids>>
    /\ UNCHANGED <<ctorVars, n_calls, appended, published>>
    /\ UNCHANGED <<genVars, workerVars>>

\* --------------------------------------------------- RedisRolloutWorker
\* line 141: current_agent = _unserialize(redis.get(MODEL_LATEST));
\* pickle.loads(None) raises TypeError when no model is published
WorkerInit(w) ==
    /\ w \in deployed
    /\ wpc[w] = "new"
    /\ IF model_latest = None
       THEN /\ wpc' = [wpc EXCEPT ![w] = "err_init"]
            /\ UNCHANGED current_agent
       ELSE /\ wpc' = [wpc EXCEPT ![w] = "register"]
            /\ current_agent' = [current_agent EXCEPT ![w] = model_latest]
    /\ UNCHANGED <<deployed, n_agents, current_version_prob, seat_stats, pushed, w_model, w_latest, w_n, w_agents, w_index>>
    /\ UNCHANGED <<storeVars, updVars, genVars>>

\* lines 146-152: redis.rpush(WORKER_IDS, uuid), then the match is set up
WorkerRegister(w) ==
    /\ wpc[w] = "register"
    /\ worker_ids' = Rpush(worker_ids, w)
    /\ wpc' = [wpc EXCEPT ![w] = "get_model"]
    /\ UNCHANGED <<model_latest, version_latest, qualities, opponent_models, rollout>>
    /\ UNCHANGED <<deployed, n_agents, current_version_prob, seat_stats, pushed, current_agent, w_model, w_latest, w_n, w_agents, w_index>>
    /\ UNCHANGED <<updVars, genVars>>

\* line 173: n, the episodes worker w has started
EpisodesStarted(w) == w_n[w]

\* line 165: model_bytes = redis.get(MODEL_LATEST)
WorkerGetModel(w) ==
    /\ wpc[w] = "get_model"
    /\ EpisodesStarted(w) < MaxEpisodes
    /\ w_model' = [w_model EXCEPT ![w] = model_latest]
    /\ wpc' = [wpc EXCEPT ![w] = "get_version"]
    /\ UNCHANGED <<deployed, n_agents, current_version_prob, seat_stats, pushed, current_agent, w_latest, w_n, w_agents, w_index>>
    /\ UNCHANGED <<storeVars, updVars, genVars>>

\* lines 166-180: latest_version = redis.get(VERSION_LATEST); no model: sleep
\* and retry; int(None) raises TypeError; otherwise the guaranteed current seat
WorkerGetVersion(w) ==
    /\ wpc[w] = "get_version"
    /\ w_latest' = [w_latest EXCEPT ![w] = version_latest]
    /\ IF w_model[w] = None
       THEN /\ wpc' = [wpc EXCEPT ![w] = "get_model"]
            /\ UNCHANGED <<current_agent, w_n, w_agents>>
       ELSE IF version_latest = None
       THEN /\ wpc' = [wpc EXCEPT ![w] = "err_version"]
            /\ UNCHANGED <<current_agent, w_n, w_agents>>
       ELSE /\ EpisodesStarted(w) < MaxEpisodes
            /\ w_n' = [w_n EXCEPT ![w] = @ + 1]
            /\ current_agent' = [current_agent EXCEPT ![w] = w_model[w]]
            /\ w_agents' = [w_agents EXCEPT ![w] =
                                <<[agent |-> w_model[w], version |-> version_latest]>>]
            /\ wpc' = [wpc EXCEPT ![w] = "select"]
    /\ UNCHANGED <<deployed, n_agents, current_version_prob, seat_stats, pushed, w_model, w_index>>
    /\ UNCHANGED <<storeVars, updVars, genVars>>

\* lines 183-194: the seats of `agents` after `k` more iterations of the loop
\* drew is_current
WithCurrent(agents, k, agent, version) ==
    agents \o [i \in 1..k |-> [agent |-> agent, version |-> version]]

\* iterations of the loop of line 183 still to run
SeatsLeft(w) == n_agents - Len(w_agents[w])

\* mutant of OpponentIndices: the index is drawn from one more than the ratings read
OpponentIndicesOneMore(ratings) == 0 .. Len(ratings)

\* lines 156-160: the indices np.random.choice(len(probs), p=probs) can return;
\* every softmax weight is positive, and an empty list raises ValueError
OpponentIndices(ratings) == 0 .. (Len(ratings) - 1)

\* probabilities are exact fractions <<numerator, denominator>>, denominator > 0
RatEq(a, b) == a[1] * b[2] = b[1] * a[2]

RatLess(a, b) == a[1] * b[2] < b[1] * a[2]

\* mutant of AdjustedProb: the guaranteed seat is not taken out of the divisor
AdjustedProbOverAll(p, n) == <<p[1] * n - p[2], p[2] * n>>

\* line 182: (current_version_prob * n_agents - 1) / (n_agents - 1), n_agents > 1
AdjustedProb(p, n) == <<p[1] * n - p[2], p[2] * (n - 1)>>

\* line 184: the probability that np.random.random(), uniform on [0, 1), is
\* below adjusted_prob
IsCurrentProb(adj) ==
    IF adj[1] <= 0 THEN <<0, 1>>
    ELSE IF adj[1] >= adj[2] THEN <<1, 1>>
    ELSE adj

\* line 184: the values is_current can take
IsCurrentOutcomes(adj) ==
    {b \in BOOLEAN : IF b THEN IsCurrentProb(adj)[1] > 0
                              ELSE IsCurrentProb(adj)[1] < IsCurrentProb(adj)[2]}

\* lines 178-194: the expected share of the n seats that carry the current
\* version: the seat of line 178, and each of the n-1 seats of the loop when
\* is_current
ExpectedFraction(p, n) ==
    LET q == IsCurrentProb(AdjustedProb(p, n))
    IN  <<q[2] + (n - 1) * q[1], n * q[2]>>

\* the seat statistics of a worker's iterations, worked out once
WorkerSeatStats ==
    /\ ~seat_stats.done
    /\ n_agents > 1
    /\ seat_stats' = [done |-> TRUE,
                      adjusted |-> AdjustedProb(current_version_prob, n_agents),
                      expected |-> ExpectedFraction(current_version_prob, n_agents)]
    /\ UNCHANGED <<deployed, n_agents, current_version_prob, pushed,
                   wpc, current_agent, w_model, w_latest, w_n, w_agents, w_index>>
    /\ UNCHANGED <<storeVars, updVars, genVars>>

\* the draws of is_current the loop of line 183 can make for this worker
Draws == IsCurrentOutcomes(AdjustedProb(current_version_prob, n_agents))

\* lines 183-186: the loop up to its next seat that is not is_current, for
\* which _get_opponent_index reads QUALITIES
WorkerSelectOpponent(w) ==
    /\ wpc[w] = "select"
    /\ FALSE \in Draws
    /\ \E k \in 0 .. (SeatsLeft(w) - 1) :
           /\ k > 0 => TRUE \in Draws
           /\ w_agents' = [w_agents EXCEPT ![w] =
                               WithCurrent(@, k, current_agent[w], w_latest[w])]
    /\ IF OpponentIndices(qualities) = {}
       THEN /\ wpc' = [wpc EXCEPT ![w] = "err_choice"]
            /\ UNCHANGED w_index
       ELSE /\ \E index \in OpponentIndices(qualities) :
                   w_index' = [w_index EXCEPT ![w] = index]
            /\ wpc' = [wpc EXCEPT ![w] = "fetch"]
    /\ UNCHANGED <<deployed, n_agents, current_version_prob, seat_stats, pushed, current_agent, w_model, w_latest, w_n>>
    /\ UNCHANGED <<storeVars, updVars, genVars>>

\* lines 187-188, 194: redis.lindex(OPPONENT_MODELS, index); pickle.loads(None)
\* raises TypeError
WorkerFetchOpponent(w) ==
    /\ wpc[w] = "fetch"
    /\ IF ~HasIndex(opponent_models, w_index[w])
       THEN /\ wpc' = [wpc EXCEPT ![w] = "err_snapshot"]
            /\ UNCHANGED <<w_agents, w_index>>
       ELSE /\ w_agents' = [w_agents EXCEPT ![w] =
                    Append(@, [agent |-> Lindex(opponent_models, w_index[w]),
                               version |-> w_index[w]])]
            /\ w_index' = [w_index EXCEPT ![w] = None]
            /\ wpc' = [wpc EXCEPT ![w] = "select"]
    /\ UNCHANGED <<deployed, n_agents, current_version_prob, seat_stats, pushed, current_agent, w_model, w_latest, w_n>>
    /\ UNCHANGED <<storeVars, updVars, genVars>>

\* mutant of Shuffles: every position is drawn from the seats independently
ShufflesWithRepeats(agents) ==
    {[i \in DOMAIN agents |-> agents[p[i]]] : p \in [DOMAIN agents -> DOMAIN agents]}

\* line 196: the orders np.random.shuffle can leave the seats in
Shuffles(agents) ==
    {[i \in DOMAIN agents |-> agents[p[i]]] :
        p \in {q \in [DOMAIN agents -> DOMAIN agents] :
                  \A i, j \in DOMAIN agents : q[i] = q[j] => i = j}}

\* line 198: util.generate_episode returns one rollout per seat, in seat
\* order; the rollout of seat i of episode n of worker w, played by agent a,
\* is <<w, n, i, a>>
EpisodeRollouts(w, n, agents) == [i \in DOMAIN agents |-> <<w, n, i, agents[i].agent>>]

\* lines 200-202: zip(rollouts, agents), each rollout paired with its seat's version
RolloutData(w, n, agents) ==
    LET rollouts == EpisodeRollouts(w, n, agents)
    IN  [i \in 1 .. (IF Len(rollouts) < Len(agents) THEN Len(rollouts) ELSE Len(agents)) |->
            [rollout |-> rollouts[i], version |-> agents[i].version]]

\* line 204: the pickled tuple (rollout_data, uuid, name, result)
Submission(w, n, agents, result) ==
    [data |-> RolloutData(w, n, agents), uuid |-> w, name |-> w, result |-> result]

\* lines 183-204: the rest of the loop with every seat is_current, then
\* shuffle, play the episode, publish
WorkerPlayAndPublish(w) ==
    /\ wpc[w] = "select"
    /\ SeatsLeft(w) > 0 => TRUE \in Draws
    /\ \E agents \in Shuffles(WithCurrent(w_agents[w], SeatsLeft(w),
                                          current_agent[w], w_latest[w])),
          result \in Results :
           rollout' = Rpush(rollout, Submission(w, w_n[w], agents, result))
    /\ pushed' = Append(pushed, [id |-> <<w, w_n[w]>>, latest |-> w_latest[w]])
    /\ w_agents' = [w_agents EXCEPT ![w] = <<>>]
    /\ w_model' = [w_model EXCEPT ![w] = None]
    /\ w_latest' = [w_latest EXCEPT ![w] = None]
    /\ wpc' = [wpc EXCEPT ![w] = "get_model"]
    /\ UNCHANGED <<model_latest, version_latest, qualities, opponent_models, worker_ids>>
    /\ UNCHANGED <<deployed, n_agents, current_version_prob, seat_stats, current_agent, w_n, w_index>>
    /\ UNCHANGED <<updVars, genVars>>

\* ------------------------------------------------------ generate_rollouts
\* mutant of BluePlayers: the odd seat goes to orange
BluePlayersFloor(n) == n \div 2

\* line 75: sum(divmod(len(rollout_data), 2))
BluePlayers(n) == (n \div 2) + (n % 2)

SubVersions(data) == {data[i].version : i \in DOMAIN data}

\* line 79: redis.lindex(QUALITIES, version) is None for some record
MissingRating(data, ratings) == \E i \in DOMAIN data : ~HasIndex(ratings, data[i].version)

\* lines 80-81: the rollouts kept for the training loop
StaleFilter(data, latest) ==
    LET kept == SelectSeq(data, LAMBDA r : r.version = latest)
    IN  [i \in DOMAIN kept |-> kept[i].rollout]

\* trueskill.rate raises ValueError on an empty rating group
RateRaises(blue, orange) == blue = <<>> \/ orange = <<>>

\* lines 87-90 and the r1 + r2 of line 93: the new ratings, blue's then orange's
Rate(blue, orange, result) ==
    IF result >= 0
    THEN LET r == RateGroups(blue, orange, result) IN r[1] \o r[2]
    ELSE LET r == RateGroups(orange, blue, 1) IN r[2] \o r[1]

RECURSIVE Group(_, _, _, _)
Group(rated, data, v, i) ==
    IF i > Len(data) \/ i > Len(rated) THEN <<>>
    ELSE (IF data[i].version = v THEN <<rated[i]>> ELSE <<>>) \o Group(rated, data, v, i + 1)

\* lines 92-94: versions = {version: [new ratings of its seats]}
VersionsMap(rated, data) == [v \in SubVersions(data) |-> Group(rated, data, v, 1)]

\* mutant of DelV0: version 0 stays in the map
DelV0Keeps(versions) == versions

\* line 96: del versions[0]
DelV0(versions) == [v \in DOMAIN versions \ {0} |-> versions[v]]

\* line 96 raises KeyError when no record has version 0
DelV0Raises(versions) == 0 \notin DOMAIN versions

\* lines 98-99; the means are exact in the units of RateDelta
AvgRating(ratings) ==
    Rating2(SumMu(ratings) \div Len(ratings), SumSigma(ratings) \div Len(ratings))

\* line 97: versions.items() iterates the keys in the order they were first
\* inserted at line 94, which is the order of their first record
RECURSIVE KeyOrder(_, _, _)
KeyOrder(data, keys, i) ==
    IF i > Len(data) THEN <<>>
    ELSE (IF data[i].version \in keys /\ \A j \in 1 .. (i - 1) : data[j].version # data[i].version
          THEN <<data[i].version>> ELSE <<>>) \o KeyOrder(data, keys, i + 1)

\* a submission is identified by its worker and that worker's episode count
SubId(sub) == <<sub.uuid, sub.data[1].rollout[2]>>

\* the generator is about to run blpop: entered, or resumed after the last
\* rollout of the previous submission
AtBlpop ==
    \/ gpc \in {"start", "blocked"}
    \/ gpc = "yield" /\ g_rollouts = <<>>

\* line 68 with an empty queue: blpop blocks the learner thread
GenBlock ==
    /\ ipc = "done"
    /\ upc = "idle"
    /\ AtBlpop /\ gpc # "blocked"
    /\ rollout = <<>>
    /\ gpc' = "blocked"
    /\ UNCHANGED <<g_sub, g_latest, g_before, g_read, g_todo, g_written, g_rollouts, g_out,
                   g_err, g_locals, dequeued>>
    /\ UNCHANGED <<storeVars, updVars, workerVars>>

\* lines 68-70: blpop returns the head of the queue
GenBlpop ==
    /\ ipc = "done"
    /\ upc = "idle"
    /\ AtBlpop
    /\ rollout # <<>>
    /\ rollout' = Blpop(rollout)
    /\ dequeued' = Append(dequeued, SubId(Head(rollout)))
    /\ g_sub' = Head(rollout)
    /\ g_before' = qualities
    /\ g_latest' = None
    /\ g_read' = <<>>
    /\ g_todo' = <<>>
    /\ g_written' = {}
    /\ g_rollouts' = <<>>
    /\ g_out' = <<>>
    /\ g_err' = "ok"
    /\ g_locals' = NoLocals
    /\ gpc' = "get_version"
    /\ UNCHANGED <<model_latest, version_latest, qualities, opponent_models, worker_ids>>
    /\ UNCHANGED <<updVars, workerVars>>

\* line 71: latest_version = int(redis.get(VERSION_LATEST)); int(None) raises
\* TypeError
GenGetVersion ==
    /\ gpc = "get_version"
    /\ g_latest' = version_latest
    /\ IF version_latest = None
       THEN /\ gpc' = "raised"
            /\ g_err' = "TypeError_version"
       ELSE /\ gpc' = "lindex"
            /\ UNCHANGED g_err
    /\ UNCHANGED <<g_sub, g_before, g_read, g_todo, g_written, g_rollouts, g_out, g_locals,
                   dequeued>>
    /\ UNCHANGED <<storeVars, updVars, workerVars>>

\* line 102: the generator is suspended at the yield of the first rollout
\* kept, or, with none kept, goes round to blpop
GenResume(kept) ==
    IF kept = <<>>
    THEN /\ gpc' = "blocked"
         /\ g_rollouts' = <<>>
         /\ g_out' = <<>>
    ELSE /\ gpc' = "yield"
         /\ g_rollouts' = Tail(kept)
         /\ g_out' = <<Head(kept)>>

\* lines 87-97 with every rating read: rate, the versions dict, del
\* versions[0], up to the first lset
GenRate(read) ==
    LET data == g_sub.data
        n == Len(data)
        blue == SubSeq(read, 1, BluePlayers(n))
        orange == SubSeq(read, BluePlayers(n) + 1, n)
        versions == VersionsMap(Rate(blue, orange, g_sub.result), data)
        todo == KeyOrder(data, DOMAIN DelV0(versions), 1)
    IN  IF RateRaises(blue, orange)
        THEN /\ gpc' = "raised"
             /\ g_err' = "ValueError_rate"
             /\ g_locals' = [blue |-> blue, orange |-> orange, versions |-> <<>>]
             /\ UNCHANGED <<g_todo, g_rollouts, g_out>>
        ELSE /\ g_locals' = [blue |-> blue, orange |-> orange, versions |-> versions]
             /\ IF DelV0Raises(versions)
                THEN /\ gpc' = "raised"
                     /\ g_err' = "KeyError_v0"
                     /\ UNCHANGED <<g_todo, g_rollouts, g_out>>
                ELSE /\ UNCHANGED g_err
                     /\ g_todo' = todo
                     /\ IF todo = <<>>
                        THEN GenResume(StaleFilter(data, g_latest))
                        ELSE /\ gpc' = "lset"
                             /\ UNCHANGED <<g_rollouts, g_out>>

\* lines 78-85: one iteration of the loop, rating =
\* _unserialize(redis.lindex(QUALITIES, version)); pickle.loads(None) raises
\* TypeError; the last iteration runs on to the first lset
GenLindex ==
    /\ gpc = "lindex"
    /\ LET version == g_sub.data[Len(g_read) + 1].version
       IN  IF ~HasIndex(qualities, version)
           THEN /\ gpc' = "raised"
                /\ g_err' = "TypeError_rating"
                /\ UNCHANGED <<g_read, g_todo, g_rollouts, g_out, g_locals>>
           ELSE /\ g_read' = Append(g_read, Lindex(qualities, version))
                /\ IF Len(g_read) + 1 < Len(g_sub.data)
                   THEN UNCHANGED <<gpc, g_err, g_todo, g_rollouts, g_out, g_locals>>
                   ELSE GenRate(Append(g_read, Lindex(qualities, version)))
    /\ UNCHANGED <<g_sub, g_latest, g_before, g_written, dequeued>>
    /\ UNCHANGED <<storeVars, updVars, workerVars>>

\* lines 97-100: one iteration of the loop, redis.lset(QUALITIES, version,
\* avg_rating); Redis answers an index out of range with an error; after the
\* last iteration the generator yields
GenLset ==
    /\ gpc = "lset"
    /\ LET version == Head(g_todo)
       IN  IF ~HasIndex(qualities, version)
           THEN /\ gpc' = "raised"
                /\ g_err' = "ResponseError_lset"
                /\ UNCHANGED <<qualities, g_todo, g_written, g_rollouts, g_out>>
           ELSE /\ qualities' = Lset(qualities, version,
                                     AvgRating(DelV0(g_locals.versions)[version]))
                /\ g_written' = g_written \cup {version}
                /\ g_todo' = Tail(g_todo)
                /\ UNCHANGED g_err
                /\ IF Tail(g_todo) = <<>>
                   THEN GenResume(StaleFilter(g_sub.data, g_latest))
                   ELSE UNCHANGED <<gpc, g_rollouts, g_out>>
    /\ UNCHANGED <<g_sub, g_latest, g_before, g_read, g_locals, dequeued>>
    /\ UNCHANGED <<model_latest, version_latest, opponent_models, rollout, worker_ids>>
    /\ UNCHANGED <<updVars, workerVars>>

\* line 102: the training loop takes the next rollout of the submission
GenYield ==
    /\ upc = "idle"
    /\ gpc = "yield"
    /\ g_rollouts # <<>>
    /\ g_out' = Append(g_out, Head(g_rollouts))
    /\ g_rollouts' = Tail(g_rollouts)
    /\ UNCHANGED <<gpc, g_sub, g_latest, g_before, g_read, g_todo, g_written, g_err, g_locals,
                   dequeued>>
    /\ UNCHANGED <<storeVars, updVars, workerVars>>

Next ==
    \/ \E saveEvery \in 1 .. MaxSaveEvery, hasLogger, clear \in BOOLEAN :
           GeneratorInit(saveEvery, hasLogger, clear)
    \/ ClearExists
    \/ ClearDelete
    \/ UpdSetModel(MaxCalls)
    \/ UpdSetVersion
    \/ AddOpponentPushModel
    \/ AddOpponentReadQualities
    \/ AddOpponentSetQuality
    \/ GenBlock
    \/ GenBlpop
    \/ GenGetVersion
    \/ GenLindex
    \/ GenLset
    \/ GenYield
    \/ \E w \in Workers : WorkerInit(w)
    \/ \E w \in Workers : WorkerRegister(w)
    \/ \E w \in Workers : WorkerGetModel(w)
    \/ \E w \in Workers : WorkerGetVersion(w)
    \/ \E w \in Workers : WorkerSelectOpponent(w)
    \/ \E w \in Workers : WorkerFetchOpponent(w)
    \/ \E w \in Workers : WorkerPlayAndPublish(w)

Spec == Init /\ [][Next]_vars

\* the learner publishes models and the worker plays; nothing consumes the queue
NextPlay ==
    \/ UpdSetModel(MaxCalls)
    \/ UpdSetVersion
    \/ AddOpponentPushModel
    \/ AddOpponentReadQualities
    \/ AddOpponentSetQuality
    \/ \E w \in Workers : WorkerInit(w)
    \/ \E w \in Workers : WorkerRegister(w)
    \/ \E w \in Workers : WorkerGetModel(w)
    \/ \E w \in Workers : WorkerGetVersion(w)
    \/ \E w \in Workers : WorkerSelectOpponent(w)
    \/ \E w \in Workers : WorkerFetchOpponent(w)
    \/ \E w \in Workers : WorkerPlayAndPublish(w)

SpecPlay == Init /\ [][NextPlay]_vars

\* the generator alone, constructed with the default save_every
InitCadence == InitWith({SaveEveryDefault}, {})

NextCadence ==
    \/ UpdSetModel(MaxCallsCadence)
    \/ UpdSetVersion
    \/ AddOpponentPushModel
    \/ AddOpponentReadQualities
    \/ AddOpponentSetQuality

SpecCadence == InitCadence /\ [][NextCadence]_vars

\* lines 119-132 on the new store: the store and the counters when k calls of
\* update_parameters have returned, each with a snapshot (k = 1 for any
\* save_every and logger; a later call takes its snapshot only with
\* save_every=1 and returns from the log call of line 109 only with a logger)
CallsReturned(k) ==
    /\ k > 1 => (save_every = 1 /\ logger)
    /\ model_latest = k
    /\ version_latest = k - 1
    /\ qualities = [i \in 1 .. k |-> Rating(0)]
    /\ opponent_models = [i \in 1 .. k |-> i]
    /\ rollout = <<>>
    /\ worker_ids = <<>>
    /\ n_updates = k
    /\ n_calls = k
    /\ appended = TRUE
    /\ u_ratings = <<>>
    /\ u_result = "returned"
    /\ published = [i \in 1 .. k |-> i - 1]
    /\ rated_for = [i \in 1 .. k |-> i]

\* a generator constructed with the defaults whose first model is published,
\* fed by every worker process
InitFifo ==
    /\ InitGenerator({SaveEveryDefault}, BOOLEAN)
    /\ CallsReturned(1)
    /\ InitWorkers(Workers, 1 .. MaxSeats, {ProbDefault})

\* the workers publish and the generator consumes.  With one snapshot in the
\* pool every record carries version 0, so that versions is empty after line
\* 96 and the loop of line 97 issues no lset here.
NextFifo ==
    \/ GenBlock
    \/ GenBlpop
    \/ GenGetVersion
    \/ GenLindex
    \/ GenYield
    \/ \E w \in Workers : WorkerInit(w)
    \/ \E w \in Workers : WorkerRegister(w)
    \/ \E w \in Workers : WorkerGetModel(w)
    \/ \E w \in Workers : WorkerGetVersion(w)
    \/ \E w \in Workers : WorkerSelectOpponent(w)
    \/ \E w \in Workers : WorkerFetchOpponent(w)
    \/ \E w \in Workers : WorkerPlayAndPublish(w)

SpecFifo == InitFifo /\ [][NextFifo]_vars

\* versions and seat counts of the rating runs: one more than MaxSeats, so
\* that a team split of an odd count above one occurs
RateSeats == MaxSeats + 1

\* the seats of a submission whose records carry `versions`, each played by
\* the blob published with its version
SeatsOf(versions) ==
    [i \in DOMAIN versions |-> [agent |-> versions[i] + 1, version |-> versions[i]]]

\* the versions of an episode whose shuffle left the worker's own seat first,
\* with version `latest`, and whose other seats all drew opponent 0
OwnThenFirstOpponent(latest, n) == [i \in 1 .. n |-> IF i = 1 THEN latest ELSE 0]

\* generate_rollouts is entered when RateSeats calls of update_parameters
\* (save_every=1, with a logger) have returned and worker w1 has published the
\* one or two episodes it played meanwhile, none processed yet, so that every
\* rating is still the one _add_opponent stored.  The last episode has any
\* seat count up to RateSeats, any version below RateSeats on each seat, any
\* result, and any of its seats as the worker's own seat, whose version is
\* the latest version the worker read and whose blob is its current_agent.
\* The episode before it, if any, is one of OwnThenFirstOpponent with a
\* latest version not above the one read later.
InitRate ==
    /\ InitGenerator({1}, {TRUE})
    /\ model_latest = RateSeats
    /\ version_latest = RateSeats - 1
    /\ qualities = [i \in 1 .. RateSeats |-> Rating(0)]
    /\ opponent_models = [i \in 1 .. RateSeats |-> i]
    /\ worker_ids = <<"w1">>
    /\ n_updates = RateSeats
    /\ n_calls = RateSeats
    /\ appended = TRUE
    /\ u_ratings = <<>>
    /\ u_result = "returned"
    /\ published = [i \in 1 .. RateSeats |-> i - 1]
    /\ rated_for = [i \in 1 .. RateSeats |-> i]
    /\ deployed = {"w1"}
    /\ n_agents \in 1 .. RateSeats
    /\ current_version_prob = ProbDefault
    /\ seat_stats = NoStats
    /\ \E versions \in [1 .. n_agents -> 0 .. (RateSeats - 1)], own \in 1 .. n_agents,
          result \in Results :
           /\ current_agent = [w \in Workers |-> IF w = "w1" THEN versions[own] + 1 ELSE None]
           /\ \/ /\ rollout = <<Submission("w1", 1, SeatsOf(versions), result)>>
                 /\ pushed = <<[id |-> <<"w1", 1>>, latest |-> versions[own]]>>
                 /\ w_n = [w \in Workers |-> IF w = "w1" THEN 1 ELSE 0]
              \/ \E before \in 0 .. versions[own], result1 \in Results :
                     /\ rollout =
                            <<Submission("w1", 1,
                                         SeatsOf(OwnThenFirstOpponent(before, n_agents)),
                                         result1),
                              Submission("w1", 2, SeatsOf(versions), result)>>
                     /\ pushed = <<[id |-> <<"w1", 1>>, latest |-> before],
                                   [id |-> <<"w1", 2>>, latest |-> versions[own]]>>
                     /\ w_n = [w \in Workers |-> IF w = "w1" THEN 2 ELSE 0]
    /\ wpc = [w \in Workers |-> IF w = "w1" THEN "get_model" ELSE "new"]
    /\ w_model = [w \in Workers |-> None]
    /\ w_latest = [w \in Workers |-> None]
    /\ w_agents = [w \in Workers |-> <<>>]
    /\ w_index = [w \in Workers |-> None]

\* the generator consumes the queue
NextRate ==
    \/ GenBlock
    \/ GenBlpop
    \/ GenGetVersion
    \/ GenLindex
    \/ GenLset
    \/ GenYield

SpecRate == InitRate /\ [][NextRate]_vars

\* the probabilities a/b of [0, 1] with b up to MaxProbDen
Probs == {p \in (0 .. MaxProbDen) \X (1 .. MaxProbDen) : p[1] <= p[2]}

\* workers constructed for matches of two or more agents (up to one more
\* than MaxSeats, so that odd and even counts occur) with any
\* current_version_prob
InitSeats == InitOf({SaveEveryDefault}, {}, 2 .. (MaxSeats + 1), Probs)

NextSeats == WorkerSeatStats

SpecSeats == InitSeats /\ [][NextSeats]_vars

\* ------------------------------------------------------------ properties
Range(f) == {f[i] : i \in DOMAIN f}

\* the generator has dequeued a submission
InHand == g_sub # NoSub

\* the generator is through with the submission it dequeued last: it raised,
\* or wrote the ratings back and is at a yield or back at blpop
Processed == InHand /\ gpc \in {"yield", "blocked", "raised"}

\* the rollouts handed, or still to be handed, to the training loop for g_sub
Yield == g_out \o g_rollouts

\* the rollouts of the records of g_sub that carry version v
RolloutsOf(v) == {g_sub.data[i].rollout : i \in {j \in DOMAIN g_sub.data : g_sub.data[j].version = v}}

\* every record of g_sub had a rating entry and both teams had a seat
WellFormed == ~MissingRating(g_sub.data, g_before) /\ Len(g_sub.data) >= 2

\* C1: for every dequeued submission (here: one whose versions all have a
\* rating and that fills both teams) the rollouts yielded are exactly those of
\* the records whose version is the latest published version read for it, and
\* the rating of every version in it other than 0 is written back.
C1_StalenessFilter ==
    (Processed /\ WellFormed) =>
        /\ Range(Yield) = RolloutsOf(g_latest)
        /\ Len(Yield) = Cardinality(RolloutsOf(g_latest))
        /\ g_written = SubVersions(g_sub.data) \ {0}

\* C2: processing a submission never writes the rating of version 0: 0 is no
\* key of the write-back map, and qualities[0] is what it was before the
\* submission was processed, whether or not a seat has version 0.
C2_V0NeverWritten ==
    /\ 0 \notin g_written
    /\ (InHand /\ HasIndex(g_before, 0)) => Lindex(qualities, 0) = Lindex(g_before, 0)

\* a submission with a version-0 seat was processed and another rating written
C2_Witness ==
    /\ Processed /\ g_err = "ok"
    /\ 0 \in SubVersions(g_sub.data)
    /\ g_written # {}
    /\ qualities # g_before

\* the submission of C3: two seats, versions (1,1), result +1, latest version 1
\* and a rating stored for version 1
WinnerStory ==
    /\ Processed
    /\ Len(g_sub.data) = 2
    /\ g_sub.data[1].version = 1 /\ g_sub.data[2].version = 1
    /\ g_sub.result = 1
    /\ g_latest = 1
    /\ HasIndex(g_before, 1)

\* C3: the submission (1,1), result +1, with latest version 1, is processed to
\* the end: version 1's rating is written back with a strictly larger mu and
\* both rollouts are yielded.
C3_WinnerStory ==
    WinnerStory =>
        /\ g_err = "ok"
        /\ 1 \in g_written
        /\ Lindex(qualities, 1).mu > Lindex(g_before, 1).mu
        /\ Range(Yield) = RolloutsOf(1)

\* n_updates when the last call of update_parameters started
StartCount == IF u_result = "returned" THEN n_updates - 1 ELSE n_updates

\* a call of update_parameters has ended and none is in progress
CallEnded == upc = "idle" /\ u_result # "none"

\* C4 as stated: the call that just ended appended a snapshot iff it was a
\* save_every-th call (the 10th, 20th, ...).
C4_EveryTenthCall ==
    CallEnded => (appended <=> n_calls % save_every = 0)

\* C4 as amended: a call appends a snapshot iff n_updates, the number of calls
\* that returned normally before it, is a multiple of save_every; while no call
\* has raised these are the 1st, 11th, 21st, ... calls; no other call changes
\* the length of the pool.
C4_Cadence ==
    CallEnded =>
        /\ appended <=> StartCount % save_every = 0
        /\ n_calls = n_updates => (appended <=> (n_calls - 1) % save_every = 0)
        /\ Len(opponent_models) =
              Cardinality({k \in 0 .. (n_updates - 1) : k % save_every = 0})
                  + (n_calls - n_updates)

\* the 11th call has appended the second snapshot, the 10 before it one
C4_Witness ==
    /\ CallEnded /\ n_calls = 11 /\ u_result = "returned"
    /\ appended /\ Len(opponent_models) = 2

\* C5 as stated: the rating list is one longer than the opponent pool.
C5_RatingsOneMoreThanPool == Len(qualities) = 1 + Len(opponent_models)

\* calls of update_parameters that raised (inside _add_opponent)
RaisedCalls == n_calls - n_updates - (IF upc = "idle" THEN 0 ELSE 1)

\* C5 as amended: the rating list is never longer than the opponent pool; the
\* pool is longer by one per _add_opponent that raised, and by one more while
\* an _add_opponent is between its two pushes; so the two lists have the same
\* length whenever no _add_opponent has raised or is in progress.
C5_RatingsAlignedWithPool ==
    /\ Len(qualities) <= Len(opponent_models)
    /\ Len(opponent_models) =
          Len(qualities) + RaisedCalls
              + (IF upc \in {"read_qualities", "set_quality"} THEN 1 ELSE 0)

\* two snapshots and two ratings after two calls that returned
C5_Witness ==
    /\ upc = "idle" /\ n_updates = 2
    /\ Len(opponent_models) = 2 /\ Len(qualities) = 2

\* C6: every record of a dequeued submission has a rating entry when the
\* generator aggregates it.
C6_VersionsResolve ==
    Processed => ~MissingRating(g_sub.data, g_before)

\* C7: a dequeued submission with a record that has no rating entry is
\* dropped: no rating is written for it and the generator goes on.
C7_DropsAndContinues ==
    (Processed /\ MissingRating(g_sub.data, g_before)) =>
        /\ g_written = {}
        /\ gpc # "raised"

\* C8: no worker ends in an error because the model, or its version, is not
\* published yet.
C8_WorkerOnlyWaits ==
    \A w \in Workers : wpc[w] \notin {"err_init", "err_version"}

\* C9: opponent selection on an empty rating list does not fail.
C9_EmptyPoolFallsBack ==
    \A w \in Workers : wpc[w] # "err_choice"

\* C10: a dequeued submission is not in the queue again, and none is dequeued
\* twice, also after its processing has failed.
C10_AtMostOnce ==
    /\ \A i \in DOMAIN rollout : SubId(rollout[i]) \notin Range(dequeued)
    /\ \A i, j \in DOMAIN dequeued : dequeued[i] = dequeued[j] => i = j

\* a submission was dequeued, its processing failed, and the queue is empty
C10_Witness ==
    /\ Len(dequeued) = 1
    /\ gpc = "raised" /\ g_err # "ok"
    /\ rollout = <<>>

\* C11: the values update_parameters publishes under model-version are dense
\* and strictly increasing: every call after the first publishes the previous
\* call's value plus one.  Stated for a generator constructed with the default
\* logger=None, the case in which the log call is certain to raise.
C11_DenseVersions ==
    ~logger => \A k \in DOMAIN published :
                   (k - 1) \in DOMAIN published => published[k] = published[k - 1] + 1

\* the submissions still in the store or in the generator's hands
SubsVisible == Range(rollout) \cup (IF InHand THEN {g_sub} ELSE {})

\* the latest version the worker had read when it built submission sub
ReadFor(sub) == {pushed[k].latest : k \in {j \in DOMAIN pushed : pushed[j].id = SubId(sub)}}

\* C12: every submission a worker publishes has exactly one record per seat,
\* and at least one of its records carries the latest version the worker
\* read at the start of that iteration, wherever the shuffle put it.
C12_OneRecordPerSeatOneCurrent ==
    \A sub \in SubsVisible :
        /\ Len(sub.data) = n_agents
        /\ ReadFor(sub) # {}
        /\ \A latest \in ReadFor(sub) : \E i \in DOMAIN sub.data : sub.data[i].version = latest

\* a two-seat submission whose first record is a past opponent's and whose
\* second is the current version's
C12_Witness ==
    \E sub \in Range(rollout) :
        /\ Len(sub.data) = 2
        /\ ReadFor(sub) = {1}
        /\ sub.data[1].version = 0
        /\ sub.data[2].version = 1

\* C13 as stated: for every n_agents >= 2 and every current_version_prob in
\* [0, 1], the expected share of seats that carry the current version is
\* exactly current_version_prob.
C13_ExpectedShareIsProb ==
    seat_stats.done => RatEq(seat_stats.expected, current_version_prob)

\* C13, amended: the expected share of current seats is exactly
\* current_version_prob when that is at least 1/n_agents, and 1/n_agents (the
\* guaranteed seat alone) when it is less.
C13_ExpectedShare ==
    seat_stats.done =>
        IF RatLess(current_version_prob, <<1, n_agents>>)
        THEN RatEq(seat_stats.expected, <<1, n_agents>>)
        ELSE RatEq(seat_stats.expected, current_version_prob)

\* three seats at probability 0.9: adjusted_prob is 0.85 and the share is 0.9
C13_Witness ==
    /\ seat_stats.done
    /\ n_agents = 3
    /\ current_version_prob = <<9, 10>>
    /\ RatEq(seat_stats.adjusted, <<85, 100>>)
    /\ RatEq(seat_stats.expected, <<9, 10>>)

\* the submissions in the order their rpush commands were run
PushOrder == [k \in DOMAIN pushed |-> pushed[k].id]

\* the submissions waiting in the queue, head first
QueueIds == [k \in DOMAIN rollout |-> SubId(rollout[k])]

\* C14: the rollout queue is first-in first-out between the workers and the
\* generator: whatever the interleaving of the workers' pushes, the
\* submissions dequeued so far, followed by those waiting in the queue, are
\* the submissions in the order they were pushed.
C14_Fifo == dequeued \o QueueIds = PushOrder

\* w2's submission was pushed while w1 was building its own, w1's joined it
\* in the queue, and the generator has dequeued the two in that order
C14_Witness ==
    /\ Len(pushed) >= 2
    /\ Len(dequeued) >= 2
    /\ dequeued[1][1] = "w2"
    /\ dequeued[2][1] = "w1"

\* the rating read for seat i of the submission in hand
SeatRating(i) == g_before[g_sub.data[i].version + 1]

\* seat i is one of the first ceil(n/2) seats
InBlue(i) == 2 * i <= Len(g_sub.data) + 1

\* the ratings read for the seats from i to n
RECURSIVE SeatRatings(_, _)
SeatRatings(i, n) == IF i > n THEN <<>> ELSE <<SeatRating(i)>> \o SeatRatings(i + 1, n)

\* the number of blue seats
BlueSeats == Cardinality({i \in DOMAIN g_sub.data : InBlue(i)})

\* what the rating update returns for seat i: the teams as the claim splits
\* them, blue the winner of a positive result and orange of a negative one
UpdatedSeat(i) ==
    LET n == Len(g_sub.data)
        blue == SeatRatings(1, BlueSeats)
        orange == SeatRatings(BlueSeats + 1, n)
        drawn == RateGroups(blue, orange, 0)
        sign == IF InBlue(i) = (g_sub.result > 0) THEN 1 ELSE 0 - 1
    IN  IF g_sub.result = 0
        THEN (IF InBlue(i) THEN drawn[1][i] ELSE drawn[2][i - BlueSeats])
        ELSE Rating2(SeatRating(i).mu + sign * RateDelta, Shrink(SeatRating(i).sigma))

\* the updated ratings of the seats from i on that carry version v, in seat order
RECURSIVE UpdatedOf(_, _)
UpdatedOf(v, i) ==
    IF i > Len(g_sub.data) THEN <<>>
    ELSE (IF g_sub.data[i].version = v THEN <<UpdatedSeat(i)>> ELSE <<>>) \o UpdatedOf(v, i + 1)

\* the rating of every record was read: no TypeError at lines 71 or 79
RatingsRead == Processed /\ g_err \notin {"TypeError_version", "TypeError_rating"}

\* C15: for a submission of n >= 1 seats, the ratings of the first ceil(n/2)
\* records form team blue and the others team orange, and, when the rating
\* update returns, each updated per-seat rating is attributed to the version
\* of the seat at the same position, for result >= 0 and result < 0 alike.
C15_TeamsAndAttribution ==
    RatingsRead =>
        /\ g_locals.blue = SeatRatings(1, BlueSeats)
        /\ g_locals.orange = SeatRatings(BlueSeats + 1, Len(g_sub.data))
        /\ g_err # "ValueError_rate" =>
               \A v \in SubVersions(g_sub.data) : g_locals.versions[v] = UpdatedOf(v, 1)

\* the second episode in the queue, three seats of three different versions,
\* orange the winner: blue has two ratings, one of them changed by the episode
\* processed before, and each version is given the updated rating of its own
\* seat
C15_Witness ==
    /\ RatingsRead
    /\ Len(dequeued) = 2
    /\ g_err = "ok"
    /\ Len(g_sub.data) = 3
    /\ g_sub.result < 0
    /\ Len(g_locals.blue) = 2
    /\ g_locals.blue[1] # g_locals.blue[2]
    /\ Cardinality(SubVersions(g_sub.data)) = 3
    /\ \A i \in DOMAIN g_sub.data : g_locals.versions[g_sub.data[i].version] = <<UpdatedSeat(i)>>

\* the mean of the updated ratings of the seats that carry version v
MeanUpdated(v) ==
    LET rs == UpdatedOf(v, 1)
    IN  Rating2(SumMu(rs) \div Len(rs), SumSigma(rs) \div Len(rs))

\* C16: after a submission (of two teams, its ratings all read) is processed,
\* the stored rating of every version other than 0 that occurs in it is the
\* mean mu and mean sigma of the updated ratings of that version's seats, and
\* the rating of every other version is unchanged.
C16_MeanWrittenBack ==
    (RatingsRead /\ Len(g_sub.data) >= 2) =>
        \A v \in 0 .. (Len(qualities) - 1) :
            IF v # 0 /\ v \in SubVersions(g_sub.data)
            THEN Lindex(qualities, v) = MeanUpdated(v)
            ELSE Lindex(qualities, v) = Lindex(g_before, v)

\* the same statement for the submissions that have a seat of version 0
C16_MeanWrittenBackWithV0 ==
    (RatingsRead /\ Len(g_sub.data) >= 2 /\ 0 \in SubVersions(g_sub.data)) =>
        \A v \in 0 .. (Len(qualities) - 1) :
            IF v # 0 /\ v \in SubVersions(g_sub.data)
            THEN Lindex(qualities, v) = MeanUpdated(v)
            ELSE Lindex(qualities, v) = Lindex(g_before, v)

\* C17: whenever the rating list a worker reads is not empty, the opponent
\* index it selects is within the opponent pool and the fetch of
\* opponent-models at that index returns a snapshot, however the worker's
\* steps interleave with the two pushes of update_parameters.
C17_SelectedOpponentExists ==
    \A w \in Workers :
        /\ wpc[w] = "fetch" => HasIndex(opponent_models, w_index[w])
        /\ wpc[w] # "err_snapshot"

\* a worker selected and fetched opponent 0 and holds it on its second seat,
\* while update_parameters is between its push of a snapshot and its push of
\* the snapshot's rating
C17_Witness ==
    /\ upc = "set_quality"
    /\ Len(opponent_models) = Len(qualities) + 1
    /\ \E w \in Workers :
           /\ wpc[w] = "select"
           /\ Len(w_agents[w]) = 2
           /\ w_agents[w][2] = [agent |-> Lindex(opponent_models, 0), version |-> 0]

\* C18: the opponent pool and the rating list stay index-aligned: after every
\* update_parameters call, returned or raised, on a generator constructed
\* with the default logger=None, the two lists have the same length, and the
\* pool still holds every snapshot in the order it was pushed.
C18_PoolAlignedAfterEveryCall ==
    (CallEnded /\ ~logger) =>
        /\ Len(opponent_models) = Len(qualities)
        /\ \A i, j \in DOMAIN opponent_models : i < j => opponent_models[i] < opponent_models[j]

\* the version update_parameters published together with blob a, once it has
VersionOfBlob(a) == published[a]

\* C19: the version a worker attaches to its current-model seat (the seat of
\* line 178) is the version that was published with the model blob the seat
\* plays with, however the worker's two reads interleave with the
\* generator's two writes.
C19_VersionIsOfBlob ==
    \A w \in Workers :
        (w_agents[w] # <<>> /\ w_agents[w][1].agent \in DOMAIN published) =>
            w_agents[w][1].version = VersionOfBlob(w_agents[w][1].agent)

\* the model blob that played seat i of the submission in hand
SeatBlob(i) == g_sub.data[i].rollout[4]

\* seat i carries the label its worker meant: the version published with its
\* blob, or the pool index its blob was fetched from
LabelledAsMeant(i) ==
    LET v == g_sub.data[i].version
    IN  \/ SeatBlob(i) \in DOMAIN published /\ VersionOfBlob(SeatBlob(i)) = v
        \/ HasIndex(opponent_models, v) /\ Lindex(opponent_models, v) = SeatBlob(i)

\* C20: a record's version denotes the same model for the worker and for
\* the generator: for any save_every >= 1, the rating entry qualities[v] that
\* generate_rollouts reads for a record labelled v exists and is the rating
\* of the model that played that seat, whether v came from model-version or
\* from an opponent-pool index.  Stated for the submissions whose every
\* record is labelled as its worker meant.
C20_VersionDenotesSameModel ==
    (Processed /\ g_latest # None /\ \A i \in DOMAIN g_sub.data : LabelledAsMeant(i)) =>
        \A i \in DOMAIN g_sub.data :
            /\ HasIndex(g_before, g_sub.data[i].version)
            /\ Lindex(rated_for, g_sub.data[i].version) = SeatBlob(i)
====
